---- MODULE Spec2Model ----
(***************************************************************************)
(* A model of yt_dlp/extractor/srgssr.py: the play-site router             *)
(* (SRGSSRPlayIE) and the media composition resolver (SRGSSRIE).           *)
(*                                                                         *)
(* Python strings on which the code does string work (URLs, ids, business  *)
(* units) are sequences of one-character strings, so that matching,        *)
(* slicing, splitting and joining are computed and not assumed.  A missing *)
(* or empty string is <<>> (the code tests these fields for truthiness     *)
(* only); an optional integer is <<>> (None) or <<n>>.                     *)
(***************************************************************************)
EXTENDS Integers, Sequences, FiniteSets, TLC

VARIABLES
    pc,               \* where the extraction stands
    url,              \* the URL handed to the router or to the resolver
    server,           \* what the integration layer answers: "fail" or a MediaComposition
    bu, media_type, media_id,   \* SRGSSRIE._real_extract: groups of _VALID_URL
    router,           \* the groups SRGSSRPlayIE._real_extract read from its URL
    full_media_data,  \* _get_media_data: the fetched document
    chapter_idx,      \* position in chapterList of the object media_data refers to
    media_data,       \* the selected chapter (with its parentChapter)
    resource_list,    \* the list the loop of _real_extract enumerates
    src_idx,          \* next position of that loop
    formats, subtitles,   \* locals of _real_extract
    calls,            \* every call that leaves this module, in order, with what it returned
    error,            \* the exception that ended the extraction, if any
    result            \* the dictionary _real_extract returned

vars == <<pc, url, server, bu, media_type, media_id, router, full_media_data,
          chapter_idx, media_data, resource_list, src_idx, formats, subtitles,
          calls, error, result>>

-----------------------------------------------------------------------------
(* Characters and string helpers                                           *)

Digits == {"0","1","2","3","4","5","6","7","8","9"}

\* the class [0-9a-f\-]
HexDash == Digits \cup {"a","b","c","d","e","f","-"}

\* the class \w, over ASCII
WordChars == Digits \cup {"_"} \cup
    {"a","b","c","d","e","f","g","h","i","j","k","l","m",
     "n","o","p","q","r","s","t","u","v","w","x","y","z"} \cup
    {"A","B","C","D","E","F","G","H","I","J","K","L","M",
     "N","O","P","Q","R","S","T","U","V","W","X","Y","Z"}

\* s[i:] starts with lit (i counts from 1)
StartsAt(s, i, lit) ==
    /\ i >= 1
    /\ i + Len(lit) - 1 <= Len(s)
    /\ \A k \in 1..Len(lit) : s[i + k - 1] = lit[k]

\* index of the first c in s at or after i, Len(s)+1 when there is none
Find(s, i, c) ==
    IF \E j \in i..Len(s) : s[j] = c
    THEN CHOOSE j \in i..Len(s) : s[j] = c /\ \A k \in i..(j - 1) : s[k] # c
    ELSE Len(s) + 1

\* index after the longest run of characters of class C starting at i
RunEnd(s, i, C) ==
    CHOOSE j \in i..(Len(s) + 1) :
        /\ \A k \in i..(j - 1) : s[k] \in C
        /\ (j = Len(s) + 1 \/ s[j] \notin C)

Contains(s, c) == \E j \in 1..Len(s) : s[j] = c

Max(S) == CHOOSE m \in S : \A n \in S : n <= m
Min(S) == CHOOSE m \in S : \A n \in S : m <= n

-----------------------------------------------------------------------------
(* The two _VALID_URL patterns, matched as re.match matches them           *)

UuidLen == 36

video == <<"v","i","d","e","o">>
audio == <<"a","u","d","i","o">>

NoMatch == [ok |-> FALSE, bu |-> <<>>, type |-> <<>>, id |-> <<>>]

\* (?P<id>[0-9a-f\-]{36}|\d+) at p: the index after the match, 0 for no match
IdEnd(s, p) ==
    IF p + UuidLen - 1 <= Len(s) /\ \A k \in p..(p + UuidLen - 1) : s[k] \in HexDash
    THEN p + UuidLen
    ELSE IF RunEnd(s, p, Digits) > p THEN RunEnd(s, p, Digits) ELSE 0

\* (video|audio) at p: the word, <<>> for no match
TypeAt(s, p) ==
    IF StartsAt(s, p, video) THEN video
    ELSE IF StartsAt(s, p, audio) THEN audio
    ELSE <<>>

\* (?P<type>video|audio):(?P<id>...) at p
TypeIdAt(s, p) ==
    LET t == TypeAt(s, p)
        q == p + Len(t) + 1
    IN  IF t # <<>> /\ StartsAt(s, p + Len(t), <<":">>) /\ IdEnd(s, q) > 0
        THEN [ok |-> TRUE, bu |-> <<>>, type |-> t, id |-> SubSeq(s, q, IdEnd(s, q) - 1)]
        ELSE NoMatch

ResolverUnits == {<<"s","r","f">>, <<"r","t","s">>, <<"r","s","i">>, <<"r","t","r">>, <<"s","w","i">>}

\* :(?P<bu>srf|rts|rsi|rtr|swi):(?:[^:]+:)?(?P<type>...):(?P<id>...) at p.
\* The optional group is greedy: it is tried first and given up only when
\* what follows it does not match.
BuTypeIdAt(s, p) ==
    IF /\ StartsAt(s, p, <<":">>)
       /\ \E b \in ResolverUnits : StartsAt(s, p + 1, b)
       /\ StartsAt(s, p + 4, <<":">>)
    THEN LET b == SubSeq(s, p + 1, p + 3)
             q == p + 5
             c == Find(s, q, ":")
             withGroup == IF c > q /\ c <= Len(s) THEN TypeIdAt(s, c + 1) ELSE NoMatch
             m == IF withGroup.ok THEN withGroup ELSE TypeIdAt(s, q)
         IN  IF m.ok THEN [m EXCEPT !.bu = b] ELSE NoMatch
    ELSE NoMatch

\* a stretch s[a..e] that (?:/[^/]+)+ can match
PathSegments(s, a, e) ==
    /\ a < e /\ e <= Len(s)
    /\ s[a] = "/" /\ s[e] # "/"
    /\ \A k \in a..(e - 1) : ~(s[k] = "/" /\ s[k + 1] = "/")

\* SRGSSRIE._VALID_URL
SRGSSR_VALID_URL(s) ==
    LET tp   == <<":","/","/","t","p",".","s","r","g","s","s","r",".","c","h","/","p">>
        http == <<"h","t","t","p">>
        p0   == IF StartsAt(s, 1, http \o <<"s">> \o tp) THEN 5 + 1 + Len(tp)
                ELSE IF StartsAt(s, 1, http \o tp) THEN 5 + Len(tp)
                ELSE 0
        urn  == <<"?","u","r","n","=","u","r","n">>
        \* the greedy path gives characters back from the right: the match is
        \* the rightmost place where the rest of the pattern matches
        qs   == {q \in 1..Len(s) : /\ p0 > 0
                                   /\ PathSegments(s, p0, q - 1)
                                   /\ StartsAt(s, q, urn)
                                   /\ BuTypeIdAt(s, q + Len(urn)).ok}
    IN  IF qs # {} THEN BuTypeIdAt(s, Max(qs) + Len(urn))
        ELSE IF StartsAt(s, 1, <<"s","r","g","s","s","r">>) THEN BuTypeIdAt(s, 7)
        ELSE NoMatch

PlayUnits == <<<<"s","r","f">>, <<"r","t","s">>, <<"r","s","i">>, <<"r","t","r">>, <<"s","w","i","s","s","i","n","f","o">>>>

NoPlayMatch == [ok |-> FALSE, bu |-> <<>>, type |-> <<>>, type_2 |-> <<>>, id |-> <<>>]

\* \b at j: exactly one of s[j-1], s[j] is a word character
WordBoundary(s, j) ==
    LET before == j > 1 /\ j - 1 <= Len(s) /\ s[j - 1] \in WordChars
        after  == j >= 1 /\ j <= Len(s) /\ s[j] \in WordChars
    IN  before # after

\* (?:id=|urn=urn:[^:]+:video:) at j, followed by an id: where the id
\* starts, 0 for no match
IdStartAt(s, j) ==
    LET ideq == <<"i","d","=">>
        urn  == <<"u","r","n","=","u","r","n",":">>
        vid  == <<":","v","i","d","e","o",":">>
        c    == Find(s, j + Len(urn), ":")
    IN  IF StartsAt(s, j, ideq) /\ IdEnd(s, j + Len(ideq)) > 0
        THEN j + Len(ideq)
        ELSE IF /\ StartsAt(s, j, urn)
                /\ c > j + Len(urn)
                /\ StartsAt(s, c, vid)
                /\ IdEnd(s, c + Len(vid)) > 0
        THEN c + Len(vid)
        ELSE 0

\* \?.*?\b(?:id=|urn=urn:[^:]+:video:)(?P<id>...) at p: the lazy .*? stops
\* at the leftmost place where the rest matches.  The id, <<>> for no match.
QueryIdAt(s, p) ==
    LET js == {j \in (p + 1)..Len(s) : WordBoundary(s, j) /\ IdStartAt(s, j) > 0}
        i  == IdStartAt(s, Min(js))
    IN  IF StartsAt(s, p, <<"?">>) /\ js # {}
        THEN SubSeq(s, i, IdEnd(s, i) - 1)
        ELSE <<>>

\* SRGSSRPlayIE._VALID_URL
SRGSSRPlay_VALID_URL(s) ==
    LET http  == <<"h","t","t","p",":","/","/">>
        https == <<"h","t","t","p","s",":","/","/">>
        www   == <<"w","w","w",".">>
        play  == <<"p","l","a","y",".">>
        chp   == <<".","c","h","/","p","l","a","y","/">>
        tv    == <<"t","v","/">>
        radio == <<"r","a","d","i","o","/">>
        popup == <<"p","o","p","u","p">>
        playr == <<"p","l","a","y","e","r">>
        p1 == IF StartsAt(s, 1, https) THEN Len(https) + 1
              ELSE IF StartsAt(s, 1, http) THEN Len(http) + 1
              ELSE 0
        p2 == IF StartsAt(s, p1, www) THEN p1 + Len(www)
              ELSE IF StartsAt(s, p1, play) THEN p1 + Len(play)
              ELSE p1
        bs == {k \in 1..Len(PlayUnits) : StartsAt(s, p2, PlayUnits[k])}
        b  == PlayUnits[Min(bs)]
        p3 == p2 + Len(b) + Len(chp)
        p4 == IF StartsAt(s, p3, tv) THEN p3 + Len(tv)
              ELSE IF StartsAt(s, p3, radio) THEN p3 + Len(radio)
              ELSE 0
        \* [^/]+/(?P<type>video|audio)/[^?]+
        c1 == Find(s, p4, "/")
        t  == TypeAt(s, c1 + 1)
        r0 == c1 + 1 + Len(t) + 1
        qa == Find(s, r0, "?")
        named == IF /\ c1 > p4 /\ c1 <= Len(s)
                    /\ t # <<>>
                    /\ StartsAt(s, c1 + 1 + Len(t), <<"/">>)
                    /\ qa > r0
                    /\ QueryIdAt(s, qa) # <<>>
                 THEN [ok |-> TRUE, bu |-> b, type |-> t, type_2 |-> <<>>,
                       id |-> QueryIdAt(s, qa)]
                 ELSE NoPlayMatch
        \* popup(?P<type_2>video|audio)player
        t2 == TypeAt(s, p4 + Len(popup))
        qb == p4 + Len(popup) + Len(t2) + Len(playr)
        popped == IF /\ StartsAt(s, p4, popup)
                     /\ t2 # <<>>
                     /\ StartsAt(s, p4 + Len(popup) + Len(t2), playr)
                     /\ QueryIdAt(s, qb) # <<>>
                  THEN [ok |-> TRUE, bu |-> b, type |-> <<>>, type_2 |-> t2,
                        id |-> QueryIdAt(s, qb)]
                  ELSE NoPlayMatch
    IN  IF p1 > 0 /\ bs # {} /\ StartsAt(s, p3 - Len(chp), chp) /\ p4 > 0
        THEN IF named.ok THEN named ELSE popped
        ELSE NoPlayMatch

-----------------------------------------------------------------------------
(* Helpers of yt_dlp.utils and InfoExtractor that the module calls         *)

None == <<>>

\* int_or_none on a JSON integer or a missing key
int_or_none(v) == v

\* join_nonempty(*parts): the parts that are not empty, to be joined by "-"
join_nonempty(a, b, c) == SelectSeq(<<a, b, c>>, LAMBDA x : x # "")

\* qualities(ids)(qid): the index of qid in ids, -1 when it is not there
qualities(ids, qid) ==
    IF \E i \in 1..Len(ids) : ids[i] = qid
    THEN (CHOOSE i \in 1..Len(ids) : ids[i] = qid) - 1
    ELSE 0 - 1

NoSubtitles == [l \in {} |-> <<>>]

\* InfoExtractor._merge_subtitle_items: list2's items whose URL list1 lacks
\* are added to list1
_merge_subtitle_items(list1, list2) ==
    list1 \o SelectSeq(list2, LAMBDA t : \A i \in 1..Len(list1) : list1[i].url # t.url)

SubsGet(d, lang) == IF lang \in DOMAIN d THEN d[lang] ELSE <<>>

\* InfoExtractor._merge_subtitles(d1, d2), no target given: a new mapping
\* is built and returned, d1 and d2 are left as they are
_merge_subtitles(d1, d2) ==
    [l \in DOMAIN d1 \cup DOMAIN d2 |->
        _merge_subtitle_items(_merge_subtitle_items(<<>>, SubsGet(d1, l)), SubsGet(d2, l))]

\* subtitles.setdefault(lang, []).append(track)
SubsAppend(d, lang, track) ==
    [l \in DOMAIN d \cup {lang} |->
        IF l = lang THEN Append(SubsGet(d, l), track) ELSE d[l]]

-----------------------------------------------------------------------------
(* SRGSSRIE                                                                *)

IE_NAME == "SRGSSR"

_GEO_COUNTRIES == <<"CH">>

_ERRORS ==
    [ AGERATING12 |-> "To protect children under the age of 12, this video is only available between 8 p.m. and 6 a.m.",
      AGERATING18 |-> "To protect children under the age of 18, this video is only available between 11 p.m. and 5 a.m.",
      GEOBLOCK    |-> "For legal reasons, this video is only available in Switzerland.",
      LEGAL       |-> "The video cannot be transmitted for legal reasons.",
      STARTDATE   |-> "This video is not yet available. Please try again later." ]

_DEFAULT_LANGUAGE_CODES(b) ==
    CASE b = <<"s","r","f">> -> "de"
      [] b = <<"r","t","s">> -> "fr"
      [] b = <<"r","s","i">> -> "it"
      [] b = <<"r","t","r">> -> "rm"
      [] b = <<"s","w","i">> -> "en"

NoError == [type |-> "", msg |-> <<>>, expected |-> FALSE, countries |-> <<>>]

ExtractorError(msg, expected) ==
    [type |-> "ExtractorError", msg |-> msg, expected |-> expected, countries |-> <<>>]

\* InfoExtractor.raise_geo_restricted(msg, countries)
GeoRestrictedError(msg, countries) ==
    [type |-> "GeoRestrictedError", msg |-> <<msg>>, expected |-> TRUE, countries |-> countries]

\* f'urn:{bu}:video:{media_id}'
VideoUrn(b, id) == <<"u","r","n",":">> \o b \o <<":","v","i","d","e","o",":">> \o id

\* the URL of the media composition, with its query
CompositionUrl(b, type, id) ==
    <<"h","t","t","p","s",":","/","/","i","l",".","s","r","g","s","s","r",".","c","h","/","i","n","t","e","g","r","a","t","i","o","n","l","a","y","e","r","/","2",".","0","/">> \o b \o <<"/","m","e","d","i","a","C","o","m","p","o","s","i","t","i","o","n","/">>
        \o type \o <<"/">> \o id \o <<".","j","s","o","n">>
        \o (IF type = video THEN <<"?","o","n","l","y","C","h","a","p","t","e","r","s","=","T","r","u","e">> ELSE <<>>)

TokenUrl == <<"h","t","t","p",":","/","/","t","p",".","s","r","g","s","s","r",".","c","h","/","a","k","a","h","d","/","t","o","k","e","n","?","a","c","l","=","*">>

\* the chapters a requested id matches
Matches(ch, b, id) == ch.id = id \/ ch.urn = VideoUrn(b, id)

\* SelectChapter with the URN comparison forgotten
SelectChapterById(chapter_list, b, id) ==
    IF \E i \in 1..Len(chapter_list) : chapter_list[i].id = id
    THEN Min({i \in 1..Len(chapter_list) : chapter_list[i].id = id})
    ELSE 1

\* _get_media_data, the try/except: the position of the selected chapter
SelectChapter(chapter_list, b, id) ==
    IF \E i \in 1..Len(chapter_list) : Matches(chapter_list[i], b, id)
    THEN Min({i \in 1..Len(chapter_list) : Matches(chapter_list[i], b, id)})
    ELSE 1

\* BlockError without the special case of GEOBLOCK
BlockErrorNoGeo(ch) ==
    LET block_reason == ch.blockReason
    IN  IF block_reason # "" /\ block_reason \in DOMAIN _ERRORS
        THEN ExtractorError(<<IE_NAME, " said: ", _ERRORS[block_reason]>>, TRUE)
        ELSE NoError

\* _get_media_data, the block reason check: the exception raised, or NoError
BlockError(ch) ==
    LET block_reason == ch.blockReason
    IN  IF block_reason # "" /\ block_reason \in DOMAIN _ERRORS
        THEN IF block_reason = "GEOBLOCK"
             THEN GeoRestrictedError(_ERRORS[block_reason], _GEO_COUNTRIES)
             ELSE ExtractorError(<<IE_NAME, " said: ", _ERRORS[block_reason]>>, TRUE)
        ELSE NoError

\* ParentChapter that takes the first chapter whatever it is
ParentChapterFirst(chapter_list) == 1

\* _get_media_data: the position of the chapter stored as parentChapter
ParentChapter(chapter_list) ==
    IF \E i \in 1..Len(chapter_list) : chapter_list[i].fullLengthUrn = ""
    THEN Min({i \in 1..Len(chapter_list) : chapter_list[i].fullLengthUrn = ""})
    ELSE 1

\* _get_tokenized_src that always joins with "&"
_get_tokenized_src_amp(format_url, token) ==
    LET auth_params == IF token = None THEN <<>> ELSE token[1].authparams
    IN  IF auth_params # <<>> THEN format_url \o <<"&">> \o auth_params ELSE format_url

\* _get_tokenized_src, given what the token request returned (None: failed)
_get_tokenized_src(format_url, token) ==
    LET auth_params == IF token = None THEN <<>> ELSE token[1].authparams
    IN  IF auth_params # <<>>
        THEN format_url \o (IF ~Contains(format_url, "?") THEN <<"?">> ELSE <<"&">>) \o auth_params
        ELSE format_url

-----------------------------------------------------------------------------
(* _real_extract: start and end on the URL of a segment                    *)

DigitChars == <<"0","1","2","3","4","5","6","7","8","9">>

RECURSIVE IntToChars(_)
\* str(n), n >= 0
IntToChars(n) ==
    IF n < 10 THEN <<DigitChars[n + 1]>>
    ELSE IntToChars(n \div 10) \o <<DigitChars[(n % 10) + 1]>>

\* f'{ms / 1000:.3f}', ms >= 0 in milliseconds
Format3f(ms) ==
    LET frac == ms % 1000
    IN  IntToChars(ms \div 1000) \o <<".">> \o
        <<DigitChars[(frac \div 100) + 1], DigitChars[((frac \div 10) % 10) + 1],
          DigitChars[(frac % 10) + 1]>>

RECURSIVE Split(_, _)
\* s.split(sep): the pieces between the separators
Split(s, sep) ==
    IF ~Contains(s, sep) THEN <<s>>
    ELSE <<SubSeq(s, 1, Find(s, 1, sep) - 1)>>
            \o Split(SubSeq(s, Find(s, 1, sep) + 1, Len(s)), sep)

\* s.partition(sep): <<before, after>>, after empty when sep is not in s
Partition(s, sep) ==
    <<SubSeq(s, 1, Find(s, 1, sep) - 1), SubSeq(s, Find(s, 1, sep) + 1, Len(s))>>

\* params[k] = v on a dict kept in insertion order: a key already there
\* keeps its place and takes the new value
DictSet(params, k, v) ==
    IF \E i \in 1..Len(params) : params[i][1] = k
    THEN [i \in 1..Len(params) |-> IF params[i][1] = k THEN <<k, v>> ELSE params[i]]
    ELSE Append(params, <<k, v>>)

RECURSIVE ParseParams(_, _)
\* the loop over query.split('&')
ParseParams(params, pieces) ==
    IF pieces = <<>> THEN params
    ELSE LET kv == Partition(Head(pieces), "=")
         IN  ParseParams(DictSet(params, kv[1], kv[2]), Tail(pieces))

RECURSIVE JoinParams(_)
\* "&".join(f"{k}={v}" for k, v in params.items())
JoinParams(params) ==
    IF params = <<>> THEN <<>>
    ELSE params[1][1] \o <<"=">> \o params[1][2]
            \o (IF Len(params) > 1 THEN <<"&">> \o JoinParams(Tail(params)) ELSE <<>>)

startKey == <<"s","t","a","r","t">>
endKey == <<"e","n","d">>

\* the URL after the is_segment block of the loop
SegmentUrl(format_url, protocol, is_segment, mark_in, mark_out) ==
    IF is_segment /\ mark_in # None /\ mark_out # None
    THEN IF protocol = "HLS" /\ Contains(format_url, "?")
         THEN LET base   == SubSeq(format_url, 1, Find(format_url, 1, "?") - 1)
                  query  == SubSeq(format_url, Find(format_url, 1, "?") + 1, Len(format_url))
                  params == ParseParams(<<>>, Split(query, "&"))
                  timed  == DictSet(DictSet(params, startKey, Format3f(mark_in[1])),
                                    endKey, Format3f(mark_out[1]))
              IN  base \o <<"?">> \o JoinParams(timed)
         ELSE format_url
    ELSE format_url

\* _extract_m3u8_subtitles, given what the playlist request returned
\* (None: failed or empty) and the URL it was sent to.  A line of the
\* playlist is [subtitles, URI, LANGUAGE, NAME]: whether it is an
\* #EXT-X-MEDIA:TYPE=SUBTITLES line, and its attributes (None: not there).
\* A URI is [http, ref]; urljoin makes one that does not start with http
\* relative to the playlist.
RECURSIVE ScanPlaylist(_, _, _)
ScanPlaylist(subs, lines, m3u8_url) ==
    IF lines = <<>> THEN subs
    ELSE LET entry == Head(lines)
             sub_url == IF entry.URI[1].http
                        THEN [base |-> <<>>, ref |-> entry.URI[1].ref]
                        ELSE [base |-> m3u8_url, ref |-> entry.URI[1].ref]
             name == IF entry.NAME = None THEN "" ELSE entry.NAME[1]
         IN  IF ~entry.subtitles \/ entry.URI = None \/ entry.LANGUAGE = None
             THEN ScanPlaylist(subs, Tail(lines), m3u8_url)
             ELSE ScanPlaylist(SubsAppend(subs, entry.LANGUAGE[1],
                                          [url |-> sub_url, name |-> name]),
                               Tail(lines), m3u8_url)

_extract_m3u8_subtitles(m3u8_content, m3u8_url) ==
    IF m3u8_content = None \/ m3u8_content = <<<<>>>>
    THEN NoSubtitles
    ELSE ScanPlaylist(NoSubtitles, m3u8_content[1], m3u8_url)

\* is_segment, mark_in, mark_out of _real_extract
IsSegment(md) == md.fullLengthUrn # ""
MarkIn(md) == int_or_none(md.markIn)
MarkOut(md) == int_or_none(md.markOut)

\* _real_extract: the list the loop enumerates
ResourceList(md) ==
    LET own == md.resourceList
    IN  IF own = <<>> /\ IsSegment(md) THEN md.parentChapter.resourceList ELSE own

\* q = qualities(['SD', 'HD'])
q(quality) == qualities(<<"SD", "HD">>, quality)

\* PodcastFormats without the test of the position
PodcastFormatsAnyPosition(md) ==
    LET entry(quality, podcast_url) ==
            IF podcast_url = <<>> THEN <<>>
            ELSE <<[format_id |-> <<"PODCAST", quality>>, url |-> podcast_url,
                    quality |-> q(quality)]>>
    IN  entry("SD", md.podcastSdUrl) \o entry("HD", md.podcastHdUrl)

\* _real_extract: 'PODCAST-' + quality entries of the chapter
PodcastFormats(md) ==
    LET entry(quality, podcast_url) ==
            IF podcast_url = <<>> THEN <<>>
            ELSE <<[format_id |-> <<"PODCAST", quality>>, url |-> podcast_url,
                    quality |-> q(quality)]>>
    IN  IF int_or_none(md.position) = <<0>>
        THEN entry("SD", md.podcastSdUrl) \o entry("HD", md.podcastHdUrl)
        ELSE <<>>

RECURSIVE AddSubtitleList(_, _, _)
\* _real_extract: the loop over subtitleList
AddSubtitleList(subs, list, b) ==
    IF list = <<>> THEN subs
    ELSE LET sub == Head(list)
             lang == IF sub.locale # "" THEN sub.locale ELSE _DEFAULT_LANGUAGE_CODES(b)
         IN  IF sub.url = ""
             THEN AddSubtitleList(subs, Tail(list), b)
             ELSE AddSubtitleList(
                     SubsAppend(subs, lang, [url |-> [base |-> <<>>, ref |-> sub.url], name |-> ""]),
                     Tail(list), b)

\* SRGSSRPlayIE._real_extract: media_type
PlayMediaType(mobj) == IF mobj.type # <<>> THEN mobj.type ELSE mobj.type_2

\* CanonicalUrl with bu in place of bu[:3]
CanonicalUrlWholeUnit(b, type, id) ==
    <<"s","r","g","s","s","r",":">> \o b \o <<":">> \o type \o <<":">> \o id

\* SRGSSRPlayIE._real_extract: f'srgssr:{bu[:3]}:{media_type}:{media_id}'
CanonicalUrl(b, type, id) ==
    <<"s","r","g","s","s","r",":">> \o SubSeq(b, 1, IF Len(b) < 3 THEN Len(b) ELSE 3) \o <<":">> \o type \o <<":">> \o id

-----------------------------------------------------------------------------
(* What the host framework and the network may answer                      *)

Track(ref) == [url |-> [base |-> <<>>, ref |-> ref], name |-> ""]

\* the token request: failed, a document without authparams, a token
TokenResponses ==
    {None, <<[authparams |-> <<>>]>>, <<[authparams |-> <<"h","d","n","t","s","=","t">>]>>}

\* _extract_akamai_formats_and_subtitles: numbers of formats, subtitles
AkamaiResults ==
    { [formats |-> 0, subs |-> NoSubtitles],
      [formats |-> 1, subs |-> [l \in {"de"} |-> <<Track("akamai.vtt")>>]] }

\* _extract_m3u8_formats_and_subtitles(..., fatal=False)
M3u8Results ==
    { [formats |-> 0, subs |-> NoSubtitles],
      [formats |-> 1, subs |-> NoSubtitles],
      [formats |-> 1, subs |-> [l \in {"de"} |-> <<Track("de.vtt")>>]] }

\* the playlist as _download_webpage(..., fatal=False) returns it
PlaylistResponses ==
    { None,
      <<<<[subtitles |-> TRUE, URI |-> <<[http |-> TRUE, ref |-> "de.vtt"]>>,
           LANGUAGE |-> <<"de">>, NAME |-> <<"Deutsch">>]>>>>,
      <<<<[subtitles |-> FALSE, URI |-> <<[http |-> TRUE, ref |-> "audio.m3u8"]>>,
           LANGUAGE |-> <<"de">>, NAME |-> None],
          [subtitles |-> TRUE, URI |-> <<[http |-> TRUE, ref |-> "it.vtt"]>>,
           LANGUAGE |-> None, NAME |-> None],
          [subtitles |-> TRUE, URI |-> <<[http |-> FALSE, ref |-> "fr.vtt"]>>,
           LANGUAGE |-> <<"fr">>, NAME |-> None]>>>> }

\* the formats an external extractor returned for a manifest
ExternalFormats(n, format_id, manifest_url) ==
    [i \in 1..n |-> [format_id |-> Append(format_id, "0"), url |-> manifest_url,
                     quality |-> -1]]

-----------------------------------------------------------------------------
(* The steps of an extraction                                              *)

\* SRGSSRPlayIE._real_extract
SRGSSRPlay_real_extract ==
    /\ pc = "play"
    /\ SRGSSRPlay_VALID_URL(url).ok
    /\ LET mobj == SRGSSRPlay_VALID_URL(url)
       IN  /\ router' = [ok |-> TRUE, bu |-> mobj.bu, type |-> PlayMediaType(mobj),
                         id |-> mobj.id]
           /\ url' = CanonicalUrl(mobj.bu, PlayMediaType(mobj), mobj.id)
    /\ pc' = "resolve"
    /\ UNCHANGED <<server, bu, media_type, media_id, full_media_data, chapter_idx,
                   media_data, resource_list, src_idx, formats, subtitles, calls,
                   error, result>>

\* SRGSSRIE._real_extract: self._match_valid_url(url).groups()
_real_extract_groups ==
    /\ pc = "resolve"
    /\ SRGSSR_VALID_URL(url).ok
    /\ LET mobj == SRGSSR_VALID_URL(url)
       IN  /\ bu' = mobj.bu
           /\ media_type' = mobj.type
           /\ media_id' = mobj.id
    /\ pc' = "get_media_data"
    /\ UNCHANGED <<url, server, router, full_media_data, chapter_idx, media_data,
                   resource_list, src_idx, formats, subtitles, calls, error, result>>

\* SRGSSRIE._get_media_data
_get_media_data ==
    /\ pc = "get_media_data"
    /\ calls' = Append(calls, [fn |-> "_download_json:mediaComposition", src |-> 0,
                               url |-> CompositionUrl(bu, media_type, media_id),
                               ret |-> server])
    /\ IF server = None
       THEN /\ error' = ExtractorError(<<"Unable to download JSON metadata">>, FALSE)
            /\ pc' = "error"
            /\ UNCHANGED <<full_media_data, chapter_idx, media_data>>
       ELSE LET chapter_list == server[1].chapterList
                i == SelectChapter(chapter_list, bu, media_id)
            IN  /\ full_media_data' = server[1]
                /\ IF chapter_list = <<>>
                   THEN /\ error' = ExtractorError(<<"No chapters found">>, FALSE)
                        /\ pc' = "error"
                        /\ UNCHANGED <<chapter_idx, media_data>>
                   ELSE /\ chapter_idx' = i
                        /\ error' = BlockError(chapter_list[i])
                        /\ IF BlockError(chapter_list[i]) # NoError
                           THEN pc' = "error" /\ UNCHANGED media_data
                           ELSE /\ pc' = "resource_list"
                                /\ media_data' =
                                     [parentChapter |-> chapter_list[ParentChapter(chapter_list)]]
                                        @@ chapter_list[i]
    /\ UNCHANGED <<url, server, bu, media_type, media_id, router, resource_list,
                   src_idx, formats, subtitles, result>>

\* SRGSSRIE._real_extract: from is_segment to resource_list
_real_extract_resource_list ==
    /\ pc = "resource_list"
    /\ formats' = <<>>
    /\ subtitles' = NoSubtitles
    /\ resource_list' = ResourceList(media_data)
    /\ src_idx' = 1
    /\ pc' = "loop"
    /\ UNCHANGED <<url, server, bu, media_type, media_id, router, full_media_data,
                   chapter_idx, media_data, calls, error, result>>

\* Dispatch that asks for a token whatever the tokenType
DispatchAlwaysToken(source) ==
    IF source.url = <<>> THEN "continue"
    ELSE IF source.protocol \in {"HDS", "HLS"} THEN "akamai"
    ELSE IF source.protocol \in {"HTTP", "HTTPS"} THEN "http"
    ELSE "none"

\* SRGSSRIE._real_extract: the branch one pass of the loop takes
Dispatch(source) ==
    IF source.url = <<>> THEN "continue"
    ELSE IF source.protocol \in {"HDS", "HLS"}
    THEN IF source.tokenType = "AKAMAI" THEN "akamai"
         ELSE IF source.protocol = "HLS" THEN "m3u8"
         ELSE "none"
    ELSE IF source.protocol \in {"HTTP", "HTTPS"} THEN "http"
    ELSE "none"

\* SRGSSRIE._real_extract: one pass of "for source in resource_list"
_real_extract_source ==
    /\ pc = "loop"
    /\ src_idx <= Len(resource_list)
    /\ src_idx' = src_idx + 1
    /\ LET source     == resource_list[src_idx]
           protocol   == source.protocol
           quality    == source.quality
           format_id  == join_nonempty(protocol, source.encoding, quality)
           format_url == SegmentUrl(source.url, protocol, IsSegment(media_data),
                                    MarkIn(media_data), MarkOut(media_data))
       IN  IF Dispatch(source) = "akamai"
           THEN \E token \in TokenResponses, ak \in AkamaiResults :
                  LET tokenized == _get_tokenized_src(format_url, token)
                      \* self._merge_subtitles(subtitles, subs): the mapping it
                      \* returns is dropped
                      dropped == _merge_subtitles(subtitles, ak.subs)
                  IN  /\ calls' = calls \o
                            <<[fn |-> "_download_json:token", src |-> src_idx,
                               url |-> TokenUrl, ret |-> token],
                              [fn |-> "_extract_akamai_formats_and_subtitles", src |-> src_idx,
                               url |-> tokenized, ret |-> ak.subs]>>
                      /\ formats' = formats \o ExternalFormats(ak.formats, format_id, tokenized)
                      /\ subtitles' = subtitles
           ELSE IF Dispatch(source) = "m3u8"
           THEN \E m3u8 \in M3u8Results, playlist \in PlaylistResponses :
                  LET \* self._merge_subtitles(subtitles, m3u8_subs): dropped as well
                      dropped == _merge_subtitles(subtitles, m3u8.subs)
                      direct_m3u8_subs == _extract_m3u8_subtitles(playlist, format_url)
                  IN  /\ calls' = calls \o
                            <<[fn |-> "_extract_m3u8_formats_and_subtitles", src |-> src_idx,
                               url |-> format_url, ret |-> m3u8.subs],
                              [fn |-> "_download_webpage:m3u8", src |-> src_idx,
                               url |-> format_url, ret |-> playlist]>>
                      /\ formats' = formats \o ExternalFormats(m3u8.formats, format_id, format_url)
                      /\ subtitles' = _merge_subtitles(subtitles, direct_m3u8_subs)
           ELSE IF Dispatch(source) = "http"
           THEN /\ formats' = Append(formats, [format_id |-> format_id, url |-> format_url,
                                               quality |-> q(quality)])
                /\ UNCHANGED <<subtitles, calls>>
           ELSE UNCHANGED <<formats, subtitles, calls>>
    /\ UNCHANGED <<pc, url, server, bu, media_type, media_id, router, full_media_data,
                   chapter_idx, media_data, resource_list, error, result>>

\* SRGSSRIE._real_extract: the podcast URLs of the chapter at position 0
_real_extract_podcast ==
    /\ pc = "loop"
    /\ src_idx > Len(resource_list)
    /\ formats' = formats \o PodcastFormats(media_data)
    /\ pc' = "return"
    /\ UNCHANGED <<url, server, bu, media_type, media_id, router, full_media_data,
                   chapter_idx, media_data, resource_list, src_idx, subtitles, calls,
                   error, result>>

\* SRGSSRIE._real_extract: subtitleList and the returned dictionary (of its
\* keys, those that only copy a field of the chapter are left out)
_real_extract_return ==
    /\ pc = "return"
    /\ LET subs == IF media_type = video
                   THEN AddSubtitleList(subtitles, media_data.subtitleList, bu)
                   ELSE subtitles
       IN  /\ subtitles' = subs
           /\ result' = <<[id |-> media_id, title |-> media_data.title,
                           subtitles |-> subs, formats |-> formats]>>
    /\ pc' = "done"
    /\ UNCHANGED <<url, server, bu, media_type, media_id, router, full_media_data,
                   chapter_idx, media_data, resource_list, src_idx, formats, calls, error>>

Next ==
    \/ SRGSSRPlay_real_extract
    \/ _real_extract_groups
    \/ _get_media_data
    \/ _real_extract_resource_list
    \/ _real_extract_source
    \/ _real_extract_podcast
    \/ _real_extract_return

-----------------------------------------------------------------------------
(* Inputs: the URL an extraction starts from, and the document served      *)

MaxChapters == 3
MaxBlockChapters == 2
MaxParentChapters == 3
MaxResources == 2
MaxPodcastResources == 2
MaxParams == 2

Seqs(S, n) == UNION {[1..k -> S] : k \in 0..n}

ID == <<"4","2">>
OtherId == <<"7">>

Resource(u, protocol, quality, tokenType) ==
    [url |-> u, protocol |-> protocol, encoding |-> "", quality |-> quality,
     tokenType |-> tokenType]

\* a chapter that plays: one HTTP resource, position 0, one subtitle
Chapter ==
    [id |-> ID, urn |-> <<>>, blockReason |-> "", fullLengthUrn |-> "",
     markIn |-> None, markOut |-> None,
     resourceList |-> <<Resource(<<"h","t","t","p",":","/","/","h","/","v",".","m","p","4">>, "HTTP", "HD", "")>>,
     position |-> <<0>>, podcastSdUrl |-> <<>>, podcastHdUrl |-> <<>>,
     subtitleList |-> <<[url |-> "s.vtt", locale |-> ""]>>, title |-> "t"]

\* where an extraction starts: at the router with a play-site URL, or at the
\* resolver with a canonical identifier; bu is the unit the resolver will see
Entries ==
    { [pc |-> "play", bu |-> <<"s","r","f">>, url |-> <<"h","t","t","p","s",":","/","/","w","w","w",".","s","r","f",".","c","h","/","p","l","a","y","/","t","v","/","x","/","v","i","d","e","o","/","y","?","i","d","=","4","2">>],
      [pc |-> "resolve", bu |-> <<"s","w","i">>, url |-> <<"s","r","g","s","s","r",":","s","w","i",":","a","u","d","i","o",":","4","2">>] }

Start(e, doc) ==
    /\ pc = e.pc
    /\ url = e.url
    /\ server = doc
    /\ bu = <<>> /\ media_type = <<>> /\ media_id = <<>>
    /\ router = [ok |-> FALSE, bu |-> <<>>, type |-> <<>>, id |-> <<>>]
    /\ full_media_data = None
    /\ chapter_idx = 0
    /\ media_data = None
    /\ resource_list = <<>>
    /\ src_idx = 0
    /\ formats = <<>>
    /\ subtitles = NoSubtitles
    /\ calls = <<>>
    /\ error = NoError
    /\ result = None

Documents(chapterLists) == {None} \cup {<<[chapterList |-> cl]>> : cl \in chapterLists}

\* chapters that differ in id and urn
SelectChapters(b) ==
    {[Chapter EXCEPT !.id = i, !.urn = u] :
        i \in {ID, OtherId},
        u \in {VideoUrn(b, ID), <<"u","r","n",":">> \o b \o <<":","a","u","d","i","o",":">> \o ID}}

InitSelect ==
    \E e \in Entries : \E doc \in Documents(Seqs(SelectChapters(e.bu), MaxChapters)) :
        Start(e, doc)

BlockReasons ==
    {"", "AGERATING12", "AGERATING18", "GEOBLOCK", "LEGAL", "STARTDATE", "ENDDATE", "UNKNOWN"}

\* chapters that differ in id and block reason
BlockChapters ==
    {[Chapter EXCEPT !.id = i, !.blockReason = r] : i \in {ID, OtherId}, r \in BlockReasons}

InitBlock ==
    \E e \in Entries : \E doc \in Documents(Seqs(BlockChapters, MaxBlockChapters)) :
        Start(e, doc)

\* the chapter at position i of a list: whether it has the requested id,
\* whether it is a segment, whether it has resources of its own (its own
\* resource names the position)
ParentFlags == [match : BOOLEAN, segment : BOOLEAN, own : BOOLEAN]

ParentChapterAt(i, f) ==
    [Chapter EXCEPT
        !.id = IF f.match THEN ID ELSE OtherId,
        !.fullLengthUrn = IF f.segment THEN "urn:srf:video:full" ELSE "",
        !.resourceList = IF f.own
                         THEN <<Resource(<<"h","t","t","p",":","/","/","h","/","s","d","/">> \o IntToChars(i), "HTTP", "SD", ""),
                                Resource(<<"h","t","t","p",":","/","/","h","/","h","d","/">> \o IntToChars(i), "HTTP", "HD", "")>>
                         ELSE <<>>]

ParentLists ==
    {[i \in 1..Len(fs) |-> ParentChapterAt(i, fs[i])] :
        fs \in Seqs(ParentFlags, MaxParentChapters)}

InitParent ==
    \E e \in Entries : \E doc \in Documents(ParentLists) : Start(e, doc)

\* the kinds of resource the loop tells apart
ResourcePool ==
    { Resource(<<"h","t","t","p",":","/","/","h","/","a",".","m","3","u","8">>, "HLS", "HD", ""),
      Resource(<<"h","t","t","p",":","/","/","h","/","b",".","m","3","u","8">>, "HLS", "HD", "AKAMAI"),
      Resource(<<"h","t","t","p",":","/","/","h","/","c",".","f","4","m","?","h","d","c","o","r","e","=","3">>, "HDS", "SD", "AKAMAI"),
      Resource(<<"h","t","t","p",":","/","/","h","/","d",".","f","4","m">>, "HDS", "SD", ""),
      Resource(<<"h","t","t","p",":","/","/","h","/","e",".","m","p","4">>, "HTTP", "HD", ""),
      Resource(<<>>, "HLS", "SD", ""),
      Resource(<<"r","t","m","p",":","/","/","h","/","g">>, "RTMP", "", "AKAMAI") }

\* one chapter, blocked or not, or no chapter at all
ResourceLists ==
    {<<>>} \cup
    {<<[Chapter EXCEPT !.resourceList = rl, !.blockReason = r]>> :
        rl \in Seqs(ResourcePool, MaxResources), r \in {"", "GEOBLOCK"}}

Init ==
    \E e \in Entries : \E doc \in Documents(ResourceLists) : Start(e, doc)

PodcastResourcePool ==
    { Resource(<<"h","t","t","p",":","/","/","h","/","s","d",".","m","p","3">>, "HTTP", "SD", ""),
      Resource(<<"h","t","t","p","s",":","/","/","h","/","h","d",".","m","p","3">>, "HTTPS", "HD", ""),
      Resource(<<"h","t","t","p",":","/","/","h","/","x",".","m","p","3">>, "HTTP", "", ""),
      Resource(<<"h","t","t","p",":","/","/","h","/","c",".","f","4","m">>, "HDS", "HD", "AKAMAI") }

\* the requested chapter, alone or behind a chapter at position 0 that has
\* both podcast URLs
PodcastLists ==
    LET decoy == [Chapter EXCEPT !.id = OtherId, !.podcastSdUrl = <<"h","t","t","p",":","/","/","p","/","f","u","l","l","-","s","d">>,
                                 !.podcastHdUrl = <<"h","t","t","p",":","/","/","p","/","f","u","l","l","-","h","d">>]
        chapters ==
            {[Chapter EXCEPT !.position = p, !.podcastSdUrl = sd, !.podcastHdUrl = hd,
                             !.resourceList = rl] :
                p \in {None, <<0>>, <<1>>},
                sd \in {<<>>, <<"h","t","t","p",":","/","/","p","/","s","d">>},
                hd \in {<<>>, <<"h","t","t","p",":","/","/","p","/","h","d">>},
                rl \in Seqs(PodcastResourcePool, MaxPodcastResources)}
    IN  {<<ch>> : ch \in chapters} \cup {<<decoy, ch>> : ch \in chapters}

InitPodcast ==
    \E e \in Entries : \E doc \in Documents(PodcastLists) : Start(e, doc)

\* query parameters as they stand in a URL
ParamPool == {<<"a","=","1">>, <<"b","=","2">>, <<"a","=","3">>, <<"c">>, <<"s","t","a","r","t","=","9">>, <<"e","n","d","=","8">>}

RECURSIVE JoinWith(_, _)
JoinWith(pieces, sep) ==
    IF pieces = <<>> THEN <<>>
    ELSE IF Len(pieces) = 1 THEN pieces[1]
    ELSE pieces[1] \o sep \o JoinWith(Tail(pieces), sep)

\* a URL without "?" and the URLs with up to MaxParams parameters
QueryUrls ==
    {<<"h","t","t","p",":","/","/","h","/","m">>} \cup
    {<<"h","t","t","p",":","/","/","h","/","m","?">> \o JoinWith(ps, <<"&">>) : ps \in Seqs(ParamPool, MaxParams)}

Marks ==
    { <<None, <<3000>>>>, <<<<0>>, <<3000>>>>, <<<<1000>>, <<3000>>>>,
      <<<<1234>>, None>>, <<<<1234>>, <<61005>>>> }

\* one chapter with one resource; a segment has its parent behind it
UrlLists ==
    LET parent == [Chapter EXCEPT !.id = OtherId]
        segments ==
            {[Chapter EXCEPT !.fullLengthUrn = "urn:srf:video:full",
                             !.markIn = m[1], !.markOut = m[2],
                             !.resourceList = <<Resource(u, k[1], "HD", k[2])>>] :
                m \in Marks, u \in QueryUrls,
                k \in {<<"HLS", "">>, <<"HLS", "AKAMAI">>, <<"HTTP", "">>}}
        whole ==
            {[Chapter EXCEPT !.markIn = <<1000>>, !.markOut = <<3000>>,
                             !.resourceList = <<Resource(u, "HLS", "HD", "")>>] :
                u \in QueryUrls}
    IN  {<<ch, parent>> : ch \in segments} \cup {<<ch>> : ch \in whole}

InitUrl ==
    \E e \in Entries : \E doc \in Documents(UrlLists) : Start(e, doc)

\* play-site URLs, and some the router does not take
UUID == <<"2","8","e","1","a","5","7","d","-","5","b","7","6","-","4","3","9","9","-","8","a","b","3","-","9","0","9","7","f","0","7","1","e","6","c","5">>

RouterIds ==
    { UUID, <<"6","3","4","8","2","6","0">>, <<"4","2","a","b","c">>, UUID \o <<"0","0">>,
      <<"1","2","3","4","5","6","7","8","9","0","1","2","3","4","5","6","7","8","9","0","1","2","3","4","5","6","7","8","9","0","1","2","3","4","5","6","7","8","9","0">>, <<"x","y","z">> }

RouterUrls ==
    { host \o unit \o <<".","c","h","/","p","l","a","y","/">> \o section \o path \o <<"?">> \o query \o id :
        host \in {<<"h","t","t","p","s",":","/","/","w","w","w",".">>, <<"h","t","t","p",":","/","/","p","l","a","y",".">>, <<"h","t","t","p","s",":","/","/">>},
        unit \in {<<"s","r","f">>, <<"r","t","s">>, <<"r","s","i">>, <<"r","t","r">>, <<"s","w","i","s","s","i","n","f","o">>, <<"z","d","f">>},
        section \in {<<"t","v","/">>, <<"r","a","d","i","o","/">>},
        path \in {<<"x","/","v","i","d","e","o","/","y">>, <<"x","/","a","u","d","i","o","/","y">>, <<"p","o","p","u","p","v","i","d","e","o","p","l","a","y","e","r">>, <<"p","o","p","u","p","a","u","d","i","o","p","l","a","y","e","r">>},
        query \in {<<"i","d","=">>, <<"u","r","n","=","u","r","n",":","s","r","f",":","v","i","d","e","o",":">>, <<"a","=","1","&","i","d","=">>, <<"v","i","d","=","9","&","i","d","=">>,
                   <<"u","r","n","=","u","r","n",":","s","r","f",":","a","u","d","i","o",":">>},
        id \in RouterIds }

InitRouter ==
    \E u \in RouterUrls :
        Start([pc |-> "play", url |-> u], <<[chapterList |-> <<Chapter>>]>>)

Spec == Init /\ [][Next]_vars
SpecSelect == InitSelect /\ [][Next]_vars
SpecBlock == InitBlock /\ [][Next]_vars
SpecParent == InitParent /\ [][Next]_vars
SpecPodcast == InitPodcast /\ [][Next]_vars
SpecUrl == InitUrl /\ [][Next]_vars
SpecRouter == InitRouter /\ [][Next]_vars

-----------------------------------------------------------------------------
(* Properties                                                              *)

ChapterList == full_media_data.chapterList
Selected == ChapterList[chapter_idx]
Extracting == pc \in {"resource_list", "loop", "return", "done"}

\* C1 -------------------------------------------------------------------
C1_Matching ==
    {i \in 1..Len(ChapterList) :
        \/ ChapterList[i].id = media_id
        \/ ChapterList[i].urn = <<"u","r","n",":">> \o bu \o <<":","v","i","d","e","o",":">> \o media_id}

\* C1 (as amended): for every non-empty chapter list and requested id, the
\* selected chapter is the first chapter in list order whose id equals the
\* requested id or whose urn equals urn:{bu}:video:{id}; it is the first
\* chapter of the list if none matches; and when a chapter matches at a
\* position other than 0 while the chapter at position 0 does not, the first
\* chapter is not selected.
C1_FirstMatchElseFirstChapter ==
    chapter_idx > 0 =>
        /\ C1_Matching # {} =>
              chapter_idx \in C1_Matching /\ \A j \in C1_Matching : chapter_idx <= j
        /\ C1_Matching = {} => chapter_idx = 1
        /\ (C1_Matching # {} /\ 1 \notin C1_Matching) => chapter_idx # 1
        /\ Extracting => /\ media_data.id = Selected.id
                         /\ media_data.urn = Selected.urn

\* C1 as stated: whenever a matching chapter exists at a position other than
\* 0, the first chapter is not selected.
C1_MatchElsewhereNeverFirst ==
    chapter_idx > 0 =>
        ((\E i \in C1_Matching : i # 1) => chapter_idx # 1)

\* a list of three chapters of which only the last matches, and is selected
C1_Witness ==
    /\ pc = "done"
    /\ Len(ChapterList) = 3
    /\ C1_Matching = {3}
    /\ chapter_idx = 3

\* C2 -------------------------------------------------------------------
C2_KnownNotGeo == {"AGERATING12", "AGERATING18", "LEGAL", "STARTDATE"}

\* C2: with a non-empty chapter list, the error of the extraction is decided
\* by the block reason of the selected chapter alone: GEOBLOCK gives the
\* geo-restriction error with countries exactly {CH}; another known code
\* gives an expected ExtractorError whose message contains the text mapped
\* to the code; an absent or unknown reason gives no error, and the
\* extraction goes on to the resources.
C2_BlockReasonDecidesError ==
    chapter_idx > 0 =>
        LET r == Selected.blockReason
        IN  /\ r = "GEOBLOCK" =>
                  /\ pc = "error"
                  /\ error.type = "GeoRestrictedError"
                  /\ {error.countries[i] : i \in 1..Len(error.countries)} = {"CH"}
            /\ r \in C2_KnownNotGeo =>
                  /\ pc = "error"
                  /\ error.type = "ExtractorError"
                  /\ error.expected
                  /\ \E i \in 1..Len(error.msg) : error.msg[i] = _ERRORS[r]
            /\ r \notin C2_KnownNotGeo \cup {"GEOBLOCK"} =>
                  /\ error = NoError
                  /\ Extracting

\* the second of two chapters is selected and geo-blocked, the first has
\* another block reason
C2_Witness ==
    /\ pc = "error"
    /\ chapter_idx = 2
    /\ Selected.blockReason = "GEOBLOCK"
    /\ ChapterList[1].blockReason = "LEGAL"
    /\ error.type = "GeoRestrictedError"

\* C3 -------------------------------------------------------------------
C3_Whole == {i \in 1..Len(ChapterList) : ChapterList[i].fullLengthUrn = ""}
C3_Parent == ChapterList[IF C3_Whole # {} THEN Min(C3_Whole) ELSE 1]
C3_HttpUrls(rl) == [i \in 1..Len(rl) |-> rl[i].url]

\* C3: a selected segment (fullLengthUrn set) without resources of its own
\* enumerates exactly the resource list of its parent, in order, the parent
\* being the first chapter without fullLengthUrn, or the first chapter when
\* all have one; a chapter with resources of its own, or one that is no
\* segment, enumerates its own list and never the parent's.
C3_ParentResourcesForBareSegment ==
    pc \in {"loop", "return", "done"} =>
        LET expected == IF Selected.fullLengthUrn # "" /\ Selected.resourceList = <<>>
                        THEN C3_Parent.resourceList
                        ELSE Selected.resourceList
        IN  /\ resource_list = expected
            \* every resource of these lists is an HTTP one: each becomes a
            \* format, in the order of the list
            /\ pc = "done" => [i \in 1..Len(formats) |-> formats[i].url] = C3_HttpUrls(expected)

\* the first chapter is selected, a segment without resources; the second
\* is a segment too; the third is the parent, and its two resources are the
\* ones enumerated
C3_Witness ==
    /\ pc = "done"
    /\ Len(ChapterList) = 3
    /\ chapter_idx = 1
    /\ Selected.fullLengthUrn # "" /\ Selected.resourceList = <<>>
    /\ C3_Whole = {3}
    /\ Len(resource_list) = 2
    /\ Len(formats) = 2

\* C4 -------------------------------------------------------------------
QueryOf(u) == SubSeq(u, Find(u, 1, "?") + 1, Len(u))
BaseOf(u) == SubSeq(u, 1, Find(u, 1, "?") - 1)

\* the query of u has the parameter k=v
HasParam(u, k, v) ==
    /\ Contains(u, "?")
    /\ \E i \in 1..Len(Split(QueryOf(u), "&")) : Split(QueryOf(u), "&")[i] = k \o <<"=">> \o v

TimedSegment ==
    /\ pc \in {"loop", "return", "done"}
    /\ Selected.fullLengthUrn # ""
    /\ Selected.markIn # None
    /\ Selected.markOut # None

\* C4: for every HLS resource enumerated for a segment whose markIn and
\* markOut are known, the URL handed to the token fetch or to the format
\* extraction has start = markIn/1000 and end = markOut/1000 with three
\* decimals in its query (1000 and 3000 give start=1.000 and end=3.000),
\* whether or not the source URL had a query.
C4_StartEndOnEveryHlsSegmentUrl ==
    TimedSegment =>
        \A i \in 1..Len(calls) :
            (/\ calls[i].fn \in {"_extract_akamai_formats_and_subtitles",
                                 "_extract_m3u8_formats_and_subtitles",
                                 "_download_webpage:m3u8"}
             /\ resource_list[calls[i].src].protocol = "HLS")
            => /\ HasParam(calls[i].url, startKey, Format3f(Selected.markIn[1]))
               /\ HasParam(calls[i].url, endKey, Format3f(Selected.markOut[1]))
               /\ (Selected.markIn = <<1000>> /\ Selected.markOut = <<3000>>) =>
                     /\ HasParam(calls[i].url, startKey, <<"1",".","0","0","0">>)
                     /\ HasParam(calls[i].url, endKey, <<"3",".","0","0","0">>)

\* C5 -------------------------------------------------------------------
\* the (key, value) pairs of the query of u other than start and end
OtherParams(u) ==
    SelectSeq([i \in 1..Len(Split(QueryOf(u), "&")) |->
                  Partition(Split(QueryOf(u), "&")[i], "=")],
              LAMBDA kv : kv[1] \notin {startKey, endKey})

\* C5: when start and end are written onto the URL of an HLS segment, the
\* parameters other than start and end come out as the same key/value pairs
\* in the same order, and what stands before "?" is unchanged.
C5_OtherParametersPreserved ==
    TimedSegment =>
        \A i \in 1..Len(calls) :
            (/\ calls[i].fn = "_extract_m3u8_formats_and_subtitles"
             /\ Contains(resource_list[calls[i].src].url, "?"))
            => /\ OtherParams(calls[i].url) = OtherParams(resource_list[calls[i].src].url)
               /\ BaseOf(calls[i].url) = BaseOf(resource_list[calls[i].src].url)

\* C6 -------------------------------------------------------------------
C6_Has(fs, quality, u) ==
    \E i \in 1..Len(fs) : fs[i].format_id = <<"PODCAST", quality>> /\ fs[i].url = u

C6_TaggedHd(f) == f.format_id \in {<<"HTTP", "HD">>, <<"HTTPS", "HD">>, <<"PODCAST", "HD">>}

\* C6: the result has a PODCAST-SD (PODCAST-HD) format with the chapter's
\* podcastSdUrl (podcastHdUrl) exactly when the selected chapter's position
\* is 0 and that URL is not empty; a chapter at another or no position gets
\* no PODCAST format; and PODCAST-SD ranks strictly below every entry tagged
\* HD.
C6_PodcastOnlyForPositionZero ==
    pc = "done" =>
        LET fs == result[1].formats
        IN  /\ C6_Has(fs, "SD", Selected.podcastSdUrl)
                <=> (Selected.position = <<0>> /\ Selected.podcastSdUrl # <<>>)
            /\ C6_Has(fs, "HD", Selected.podcastHdUrl)
                <=> (Selected.position = <<0>> /\ Selected.podcastHdUrl # <<>>)
            /\ Selected.position # <<0>> =>
                  \A i \in 1..Len(fs) : fs[i].format_id[1] # "PODCAST"
            /\ \A i, j \in 1..Len(fs) :
                  (fs[i].format_id = <<"PODCAST", "SD">> /\ C6_TaggedHd(fs[j]))
                  => fs[i].quality < fs[j].quality

\* the selected chapter is at position 0 with both podcast URLs, behind an
\* HTTPS resource of quality HD
C6_Witness ==
    /\ pc = "done"
    /\ Selected.position = <<0>>
    /\ C6_Has(result[1].formats, "SD", Selected.podcastSdUrl)
    /\ C6_Has(result[1].formats, "HD", Selected.podcastHdUrl)
    /\ \E j \in 1..Len(formats) : formats[j].format_id = <<"HTTPS", "HD">>

\* C7 -------------------------------------------------------------------
C7_Resolved == router.ok /\ pc \notin {"play", "resolve"}

\* C7 (as amended): for every URL the router accepts, the canonical
\* identifier it emits is accepted by the resolver's pattern, and the
\* resolver reads from it the type and the id the router read from the URL
\* and the first three characters of the router's bu: the same bu for srf,
\* rts, rsi and rtr, swi for swissinfo.
C7_RoundTripUpToUnitPrefix ==
    /\ (router.ok /\ pc = "resolve") => SRGSSR_VALID_URL(url).ok
    /\ C7_Resolved =>
          /\ bu = SubSeq(router.bu, 1, 3)
          /\ router.bu # <<"s","w","i","s","s","i","n","f","o">> => bu = router.bu
          /\ router.bu = <<"s","w","i","s","s","i","n","f","o">> => bu = <<"s","w","i">>
          /\ media_type = router.type
          /\ media_id = router.id

\* C7 as stated: the triple the resolver reads is the triple the router read.
C7_RoundTripIdentity ==
    C7_Resolved => <<bu, media_type, media_id>> = <<router.bu, router.type, router.id>>

\* a swissinfo popup URL with a 36-character id has gone through both
C7_Witness ==
    /\ pc = "done"
    /\ router.ok
    /\ router.bu = <<"s","w","i","s","s","i","n","f","o">>
    /\ media_type = audio
    /\ Len(media_id) = UuidLen

\* C8 -------------------------------------------------------------------
\* the (language, URL) of every track of a subtitle mapping
TracksOf(d) == UNION {{<<l, d[l][i].url>> : i \in 1..Len(d[l])} : l \in DOMAIN d}

\* C8: the subtitles of the result hold every track the HLS playlist parser
\* returned for a plain HLS resource, every track the direct scan of the
\* playlist found, and every track the Akamai extractor returned.
C8_FrameworkSubtitlesInResult ==
    pc = "done" =>
        \A i \in 1..Len(calls) :
            /\ calls[i].fn \in {"_extract_m3u8_formats_and_subtitles",
                                "_extract_akamai_formats_and_subtitles"}
                  => TracksOf(calls[i].ret) \subseteq TracksOf(result[1].subtitles)
            /\ calls[i].fn = "_download_webpage:m3u8"
                  => TracksOf(_extract_m3u8_subtitles(calls[i].ret, calls[i].url))
                        \subseteq TracksOf(result[1].subtitles)

\* C9 -------------------------------------------------------------------
\* the stream URL of the resource a call was made for
C9_StreamUrl(c) ==
    SegmentUrl(resource_list[c.src].url, resource_list[c.src].protocol,
               IsSegment(media_data), MarkIn(media_data), MarkOut(media_data))

C9_TokenCalls ==
    \A i \in 1..Len(calls) :
        calls[i].fn = "_download_json:token" =>
            /\ pc # "error" /\ error = NoError
            /\ i < Len(calls)
            /\ calls[i + 1].fn = "_extract_akamai_formats_and_subtitles"
            /\ calls[i + 1].src = calls[i].src
            /\ LET u == C9_StreamUrl(calls[i])
                   token == calls[i].ret
               IN  IF token = <<>> \/ token[1].authparams = <<>>
                   THEN calls[i + 1].url = u
                   ELSE calls[i + 1].url =
                            u \o (IF \E k \in 1..Len(u) : u[k] = "?" THEN <<"&">> ELSE <<"?">>)
                              \o token[1].authparams

\* a step whose playlist request failed
C9_PlaylistFailed ==
    /\ Len(calls') > Len(calls)
    /\ calls'[Len(calls')].fn = "_download_webpage:m3u8"
    /\ calls'[Len(calls')].ret = <<>>

\* C9: a failed token request, or a token document without authparams,
\* leaves the stream URL as it is for the Akamai extractor, and the
\* extraction goes on; authparams are appended with "?" to a URL without
\* "?", with "&" otherwise; a failed playlist request for the subtitle scan
\* leaves the subtitles gathered so far as they were, takes no format away
\* and raises nothing.
C9_BestEffortFetches ==
    /\ []C9_TokenCalls
    /\ [][C9_PlaylistFailed =>
            /\ subtitles' = subtitles
            /\ SubSeq(formats', 1, Len(formats)) = formats
            /\ error' = NoError /\ pc' = "loop"]_vars

\* an extraction came to its end after a failed token request and a failed
\* playlist request
C9_Witness ==
    /\ pc = "done"
    /\ \E i \in 1..Len(calls) :
          calls[i].fn = "_download_json:token" /\ calls[i].ret = <<>>
    /\ \E i \in 1..Len(calls) :
          /\ calls[i].fn = "_download_webpage:m3u8" /\ calls[i].ret = <<>>

\* C10 ------------------------------------------------------------------
C10_Count(fns) == Cardinality({i \in 1..Len(calls) : calls[i].fn \in fns})

C10_Requests ==
    C10_Count({"_download_json:mediaComposition", "_download_json:token",
               "_download_webpage:m3u8"})

\* N: the token-protected resources of the enumerated list
C10_Protected ==
    Cardinality({k \in 1..Len(resource_list) : resource_list[k].tokenType = "AKAMAI"})

\* the plain HLS resources of the enumerated list
C10_PlainHls ==
    Cardinality({k \in 1..Len(resource_list) :
                    /\ resource_list[k].protocol = "HLS"
                    /\ resource_list[k].tokenType # "AKAMAI"})

C10_Ended == pc \in {"done", "error"}

C10_FailedEarly ==
    /\ C10_Ended
    /\ server # None
    /\ \/ server[1].chapterList = <<>>
       \/ chapter_idx > 0 /\ Selected.blockReason \in DOMAIN _ERRORS

C10_FirstAndFailure ==
    /\ calls # <<>> => /\ calls[1].fn = "_download_json:mediaComposition"
                       /\ \A i \in 2..Len(calls) :
                             calls[i].fn # "_download_json:mediaComposition"
    /\ C10_Ended => C10_Requests >= 1
    /\ C10_FailedEarly => pc = "error" /\ C10_Requests = 1

\* C10 (as amended): the composition fetch is the first request; a run
\* makes at least 1 and at most 1 + N + H requests, N the token-protected
\* and H the plain HLS resources of the enumerated list: at most one token
\* request per protected resource and at most one direct subtitle-scan
\* fetch per plain HLS resource; without chapters or with a blocked chapter
\* the total is exactly 1.
C10_RequestBudgetPerHlsResource ==
    /\ C10_FirstAndFailure
    /\ C10_Requests <= 1 + C10_Protected + C10_PlainHls
    /\ C10_Count({"_download_json:token"}) <= C10_Protected
    /\ C10_Count({"_download_webpage:m3u8"}) <= C10_PlainHls

\* C10 as stated: at most N + 2 requests, with at most one direct
\* subtitle-scan fetch however many plain HLS resources there are.
C10_RequestBudgetNPlusTwo ==
    /\ C10_FirstAndFailure
    /\ C10_Requests <= C10_Protected + 2
    /\ C10_Count({"_download_json:token"}) <= C10_Protected
    /\ C10_Count({"_download_webpage:m3u8"}) <= 1

\* a run with one token request and one playlist request after the
\* composition fetch
C10_Witness ==
    /\ pc = "done"
    /\ C10_Requests = 3
    /\ C10_Count({"_download_json:token"}) = 1
    /\ C10_Count({"_download_webpage:m3u8"}) = 1

====
